---------------------------- MODULE Spec2Model ----------------------------
(***************************************************************************)
(* Mancala (Kalah, 6 pockets a side, 4 stones a pocket): the rules engine  *)
(* and move generator of src/src/mancala/mod.rs and the alpha-beta search  *)
(* of src/src/minimax/mod.rs, driven through the public operations of      *)
(* Node: sub_move, full_move, children, eval and minimax.                  *)
(***************************************************************************)
EXTENDS Integers, Sequences, FiniteSets, TLC

\* ------------------------------------------------------------ constants
BOARD_SIZE == 14
STONES == 4
WHITE_POCKET == 6
BLACK_POCKET == 13
\* Score::MIN and Score::MAX of the 32-bit Score
ScoreMIN == (-2147483647) - 1
ScoreMAX == 2147483647

\* ------------------------------------------------------------ bounds
\* calls made on top of a start position (rules specification)
MaxSteps == 2
\* calls made on top of a start position (search specification)
MaxPlies == 1
\* largest search depth requested of minimax
MaxDepth == 2
\* largest pocket argument handed to sub_move (14 and above are off the board)
MaxPocketArg == 14

White == "White"
Black == "Black"
Ok == "Ok"
IndexError == "IndexError"
EmptyError == "EmptyError"

Pockets == 0 .. (BOARD_SIZE - 1)

\* Player::toggled
toggled(turn) == IF turn = White THEN Black ELSE White

\* mutant of DefaultBoard: the two stores are filled like the pockets
DefaultBoardAllFilled == [i \in Pockets |-> STONES]

\* SubNode::default
DefaultBoard == [i \in Pockets |-> IF i = WHITE_POCKET \/ i = BLACK_POCKET THEN 0 ELSE STONES]
DefaultNode == [board |-> DefaultBoard, turn |-> White]

\* mutant of opposite: mirrored across all 14 slots instead of the 13 before a store
oppositeOffByOne(pocket) == (BOARD_SIZE - 1) - pocket

\* SubNode::opposite
opposite(pocket) == (BOARD_SIZE - 2) - pocket

\* mutant of Side: the mover's store is taken to be the slot before it
SideStoreOffByOne(turn) ==
    IF turn = White
    THEN [own_pocket |-> WHITE_POCKET - 1, enemy_pocket |-> BLACK_POCKET,
          start_index |-> (BLACK_POCKET + 1) % BOARD_SIZE, end_index |-> WHITE_POCKET]
    ELSE [own_pocket |-> BLACK_POCKET - 1, enemy_pocket |-> WHITE_POCKET,
          start_index |-> (WHITE_POCKET + 1) % BOARD_SIZE, end_index |-> BLACK_POCKET]

\* the match at the head of sub_move
Side(turn) ==
    IF turn = White
    THEN [own_pocket |-> WHITE_POCKET, enemy_pocket |-> BLACK_POCKET,
          start_index |-> (BLACK_POCKET + 1) % BOARD_SIZE, end_index |-> WHITE_POCKET]
    ELSE [own_pocket |-> BLACK_POCKET, enemy_pocket |-> WHITE_POCKET,
          start_index |-> (WHITE_POCKET + 1) % BOARD_SIZE, end_index |-> BLACK_POCKET]

\* mutant of OutOfRange: the upper limit lets the mover's own store through
OutOfRangeInclusive(pocket, start_index, end_index) ==
    (pocket < start_index) \/ (pocket > end_index)

\* the range test of sub_move
OutOfRange(pocket, start_index, end_index) ==
    (pocket < start_index) \/ (pocket >= end_index)

\* mutant of SowLoop: the enemy store receives a stone like any other slot
RECURSIVE SowLoopNoSkip(_, _, _, _)
SowLoopNoSkip(board, cursor, count, enemy_pocket) ==
    IF count > 0
    THEN LET next == (cursor + 1) % BOARD_SIZE
         IN  SowLoopNoSkip([board EXCEPT ![next] = @ + 1], next, count - 1, enemy_pocket)
    ELSE [board |-> board, cursor |-> cursor]

\* the while loop of sub_move: one stone per slot, the enemy store skipped
RECURSIVE SowLoop(_, _, _, _)
SowLoop(board, cursor, count, enemy_pocket) ==
    IF count > 0
    THEN LET next == (cursor + 1) % BOARD_SIZE
         IN  IF next # enemy_pocket
             THEN SowLoop([board EXCEPT ![next] = @ + 1], next, count - 1, enemy_pocket)
             ELSE SowLoop(board, next, count, enemy_pocket)
    ELSE [board |-> board, cursor |-> cursor]

\* mutant of Capture: the capturing stone is not credited to the store
CaptureWithoutStone(board, cursor, side) ==
    IF board[cursor] = 1 /\ side.start_index <= cursor /\ cursor < side.end_index
    THEN LET opp == opposite(cursor)
         IN  [board EXCEPT ![side.own_pocket] = @ + board[opp],
                           ![opp] = 0,
                           ![cursor] = 0]
    ELSE board

\* mutant of Capture: the side of the landing pocket is not tested
CaptureAnySide(board, cursor, side) ==
    IF board[cursor] = 1
    THEN LET opp == opposite(cursor)
             credited == [board EXCEPT ![side.own_pocket] = @ + board[opp] + 1]
         IN  [[credited EXCEPT ![opp] = 0] EXCEPT ![cursor] = 0]
    ELSE board

\* the capture rule of sub_move
Capture(board, cursor, side) ==
    IF board[cursor] = 1 /\ side.start_index <= cursor /\ cursor < side.end_index
    THEN LET opp == opposite(cursor)
             credited == [board EXCEPT ![side.own_pocket] = @ + board[opp] + 1]
         IN  [[credited EXCEPT ![opp] = 0] EXCEPT ![cursor] = 0]
    ELSE board

\* mutant of sub_move: a sow that does not end in the mover's store keeps the
\* turn when it captures
sub_moveCaptureKeepsTurn(node, pocket) ==
    LET side == Side(node.turn)
    IN  IF OutOfRange(pocket, side.start_index, side.end_index)
        THEN [err |-> IndexError, node |-> node]
        ELSE IF node.board[pocket] = 0
        THEN [err |-> EmptyError, node |-> node]
        ELSE LET count == node.board[pocket]
                 sown == SowLoop([node.board EXCEPT ![pocket] = 0], pocket, count,
                                 side.enemy_pocket)
                 captured == Capture(sown.board, sown.cursor, side)
             IN  IF sown.cursor = side.own_pocket \/ captured # sown.board
                 THEN [err |-> Ok, node |-> [board |-> captured, turn |-> node.turn]]
                 ELSE [err |-> Ok,
                       node |-> [board |-> captured, turn |-> toggled(node.turn)]]

\* SubNode::sub_move: the outcome and the node as the call leaves it
sub_move(node, pocket) ==
    LET side == Side(node.turn)
    IN  IF OutOfRange(pocket, side.start_index, side.end_index)
        THEN [err |-> IndexError, node |-> node]
        ELSE IF node.board[pocket] = 0
        THEN [err |-> EmptyError, node |-> node]
        ELSE LET count == node.board[pocket]
                 sown == SowLoop([node.board EXCEPT ![pocket] = 0], pocket, count,
                                 side.enemy_pocket)
             IN  IF sown.cursor = side.own_pocket
                 THEN [err |-> Ok, node |-> [board |-> sown.board, turn |-> node.turn]]
                 ELSE [err |-> Ok,
                       node |-> [board |-> Capture(sown.board, sown.cursor, side),
                                 turn |-> toggled(node.turn)]]

\* SubNode::sub_children: the successful sows, pockets in increasing order
RECURSIVE SubChildrenFrom(_, _)
SubChildrenFrom(sub_node, pocket) ==
    IF pocket >= BOARD_SIZE
    THEN << >>
    ELSE LET r == sub_move(sub_node, pocket)
         IN  (IF r.err = Ok THEN << [pocket |-> pocket, node |-> r.node] >> ELSE << >>)
             \o SubChildrenFrom(sub_node, pocket + 1)

\* mutant of sub_children: the scan of the pockets starts at 1
sub_childrenFromOne(sub_node) == SubChildrenFrom(sub_node, 1)

sub_children(sub_node) == SubChildrenFrom(sub_node, 0)

\* move_fragment.push(pocket) on every fragment of a recursive result
PushAll(fragments, pocket) ==
    [k \in 1 .. Len(fragments) |->
        [mv |-> Append(fragments[k].mv, pocket), node |-> fragments[k].node]]

\* Node::children_from_sub_node: moves come out in reverse order
RECURSIVE children_from_sub_node(_), ChildrenLoop(_, _, _)
ChildrenLoop(sub_node, subs, i) ==
    IF i > Len(subs)
    THEN << >>
    ELSE LET pocket == subs[i].pocket
             sub_child == subs[i].node
             here == IF sub_child.turn # sub_node.turn
                     THEN << [mv |-> << pocket >>, node |-> sub_child] >>
                     ELSE PushAll(children_from_sub_node(sub_child), pocket)
         IN  here \o ChildrenLoop(sub_node, subs, i + 1)

children_from_sub_node(sub_node) == ChildrenLoop(sub_node, sub_children(sub_node), 1)

\* full_move.into_iter().rev().collect()
Rev(s) == [k \in 1 .. Len(s) |-> s[Len(s) + 1 - k]]

\* mutant of children: the reversal is forgotten
childrenUnreversed(node) == children_from_sub_node(node)

\* Node::children
children(node) ==
    LET raw == children_from_sub_node(node)
    IN  [k \in 1 .. Len(raw) |-> [mv |-> Rev(raw[k].mv), node |-> raw[k].node]]

\* Node::full_move: sows in order, stopping at the first error (the ? operator)
RECURSIVE FullMoveFrom(_, _, _)
FullMoveFrom(node, mv, i) ==
    IF i > Len(mv)
    THEN [err |-> Ok, node |-> node, applied |-> i - 1]
    ELSE LET r == sub_move(node, mv[i])
         IN  IF r.err # Ok
             THEN [err |-> r.err, node |-> r.node, applied |-> i - 1]
             ELSE FullMoveFrom(r.node, mv, i + 1)

full_move(node, mv) == FullMoveFrom(node, mv, 1)

\* mutant of eval: the opponent's store is not subtracted
evalWhiteOnly(node) == node.board[WHITE_POCKET]

\* Node::eval
eval(node) == node.board[WHITE_POCKET] - node.board[BLACK_POCKET]

\* Node::get_turn
get_turn(node) == node.turn

\* Node::final_score: each side's store plus the stones left on its own pockets,
\* White's total minus Black's
RECURSIVE SumRange(_, _, _)
SumRange(board, from, to) ==
    IF from > to THEN 0 ELSE board[from] + SumRange(board, from + 1, to)

final_score(node) ==
    SumRange(node.board, 0, WHITE_POCKET) - SumRange(node.board, WHITE_POCKET + 1, BLACK_POCKET)

Max(a, b) == IF a >= b THEN a ELSE b
Min(a, b) == IF a <= b THEN a ELSE b

\* mutant of AtHorizon: the search stops one level early
AtHorizonEarly(depth) == depth <= 1

\* the depth test of minimax
AtHorizon(depth) == depth = 0

\* mutant of InitialBest: the running best starts from a draw
InitialBestDraw(turn) == STONES - STONES

\* the running best before the first child: max_score for White, min_score for Black
InitialBest(turn) == IF turn = White THEN ScoreMIN ELSE ScoreMAX

\* minimax: alpha and beta are one pair, shared by reference with every recursive
\* call, so each call returns the pair as it leaves it
RECURSIVE minimax(_, _, _, _), WhiteLoop(_, _, _, _, _, _, _), BlackLoop(_, _, _, _, _, _, _)
\* mutant of WhiteLoop: a child that only equals the running best replaces it
RECURSIVE WhiteLoopLastWins(_, _, _, _, _, _, _)
WhiteLoopLastWins(kids, i, depth, max_score, max_move, alpha, beta) ==
    IF i > Len(kids)
    THEN [some |-> TRUE, mv |-> max_move, score |-> max_score, alpha |-> alpha, beta |-> beta]
    ELSE LET r == minimax(kids[i].node, depth - 1, alpha, beta)
             better == r.score >= max_score
             new_score == IF better THEN r.score ELSE max_score
             new_move == IF better THEN kids[i].mv ELSE max_move
         IN  IF new_score > r.beta
             THEN [some |-> TRUE, mv |-> new_move, score |-> new_score,
                   alpha |-> r.alpha, beta |-> r.beta]
             ELSE WhiteLoopLastWins(kids, i + 1, depth, new_score, new_move,
                                    Max(r.alpha, new_score), r.beta)

\* the loop of the maximising player
WhiteLoop(kids, i, depth, max_score, max_move, alpha, beta) ==
    IF i > Len(kids)
    THEN [some |-> TRUE, mv |-> max_move, score |-> max_score, alpha |-> alpha, beta |-> beta]
    ELSE LET r == minimax(kids[i].node, depth - 1, alpha, beta)
             better == r.score > max_score
             new_score == IF better THEN r.score ELSE max_score
             new_move == IF better THEN kids[i].mv ELSE max_move
         IN  IF new_score > r.beta
             THEN [some |-> TRUE, mv |-> new_move, score |-> new_score,
                   alpha |-> r.alpha, beta |-> r.beta]
             ELSE WhiteLoop(kids, i + 1, depth, new_score, new_move,
                            Max(r.alpha, new_score), r.beta)

BlackLoop(kids, i, depth, min_score, min_move, alpha, beta) ==
    IF i > Len(kids)
    THEN [some |-> TRUE, mv |-> min_move, score |-> min_score, alpha |-> alpha, beta |-> beta]
    ELSE LET r == minimax(kids[i].node, depth - 1, alpha, beta)
             better == r.score < min_score
             new_score == IF better THEN r.score ELSE min_score
             new_move == IF better THEN kids[i].mv ELSE min_move
         IN  IF new_score < r.alpha
             THEN [some |-> TRUE, mv |-> new_move, score |-> new_score,
                   alpha |-> r.alpha, beta |-> r.beta]
             ELSE BlackLoop(kids, i + 1, depth, new_score, new_move,
                            r.alpha, Min(r.beta, new_score))

minimax(node, depth, alpha, beta) ==
    LET kids == children(node)
    IN  IF Len(kids) = 0
        THEN [some |-> FALSE, mv |-> << >>, score |-> final_score(node),
              alpha |-> alpha, beta |-> beta]
        ELSE IF AtHorizon(depth)
        THEN [some |-> FALSE, mv |-> << >>, score |-> eval(node),
              alpha |-> alpha, beta |-> beta]
        ELSE IF get_turn(node) = White
        THEN WhiteLoop(kids, 1, depth, InitialBest(White), << >>, alpha, beta)
        ELSE BlackLoop(kids, 1, depth, InitialBest(Black), << >>, alpha, beta)

\* the scores minimax's loop got from its recursive calls, one per child it
\* examined, in children() order: the loop starts from the caller's alpha and
\* beta, hands each child the pair as the previous child left it, and stops
\* after the child on which it breaks
RECURSIVE ExaminedFrom(_, _, _, _, _, _, _)
ExaminedFrom(kids, i, depth, turn, best, alpha, beta) ==
    IF i > Len(kids)
    THEN << >>
    ELSE LET r == minimax(kids[i].node, depth - 1, alpha, beta)
             new_best == IF turn = White THEN Max(best, r.score) ELSE Min(best, r.score)
             cut == IF turn = White THEN new_best > r.beta ELSE new_best < r.alpha
         IN  << r.score >> \o
             (IF cut
              THEN << >>
              ELSE ExaminedFrom(kids, i + 1, depth, turn, new_best,
                                IF turn = White THEN Max(r.alpha, new_best) ELSE r.alpha,
                                IF turn = White THEN r.beta ELSE Min(r.beta, new_best)))

Examined(node, depth) ==
    ExaminedFrom(children(node), 1, depth, get_turn(node), InitialBest(get_turn(node)),
                 ScoreMIN, ScoreMAX)

\* ------------------------------------------------------------ state
VARIABLES
    node,   \* the Node the host holds: [board, turn]
    last,   \* the last call made on it: its arguments, the node before it, its result
    steps   \* calls made so far

vars == << node, last, steps >>

\* Recorded games: sows played in order from Node::default(). Their last positions
\* hold, in order: a capture about to happen; a sow of 8 stones that goes round
\* and captures; a pocket of 13 stones (a full lap); a mover whose only sows end
\* in the own store; a mover with no stones while the opponent still has some.
Games ==
    { << 5, 11 >>,
      << 4, 12, 1, 2, 11, 0 >>,
      << 5, 12, 0, 8, 10, 0, 11, 0, 12, 0, 9 >>,
      << 0, 9, 7, 4, 9, 1, 2, 7, 5, 9 >>,
      << 0, 8, 1, 2, 7, 5, 7, 3, 8, 7, 5 >> }

\* Games in progress: the host may hold the position after any number of sows of
\* a recorded game, the opening position included; each is replayed through
\* sub_move.
Prefixes(g) == { [i \in 1 .. k |-> g[i]] : k \in 0 .. Len(g) }
StartPaths == UNION { Prefixes(g) : g \in Games }

StartNodes == { full_move(DefaultNode, path).node : path \in StartPaths }

NoFound == [some |-> FALSE, mv |-> << >>, score |-> 0, alpha |-> ScoreMIN, beta |-> ScoreMAX]

Call(op, pocket, mv, depth, pre, err, kids, found) ==
    [op |-> op, pocket |-> pocket, mv |-> mv, depth |-> depth, pre |-> pre,
     err |-> err, kids |-> kids, found |-> found]

Init ==
    /\ node \in StartNodes
    /\ last = Call("default", 0, << >>, 0, node, Ok, << >>, NoFound)
    /\ steps = 0

\* pocket arguments tried on sub_move
PocketInputs == 0 .. MaxPocketArg

\* the moves children() generates for a position
LegalMoves(n) ==
    LET kids == children(n)
    IN  { kids[k].mv : k \in 1 .. Len(kids) }

\* moves tried on full_move: the generated moves, the empty move, and every pocket
\* sown twice in a row (the second sow meets an emptied pocket or the wrong side)
MoveInputs(n) == LegalMoves(n) \cup { << >> } \cup { << p, p >> : p \in Pockets }

\* the host's node.sub_move(v)
SubMove(pocket) ==
    LET r == sub_move(node, pocket)
    IN  /\ node' = r.node
        /\ last' = Call("sub_move", pocket, << >>, 0, node, r.err, << >>, NoFound)
        /\ steps' = steps + 1

\* the host's node.full_move(&mv)
FullMove(mv) ==
    LET r == full_move(node, mv)
    IN  /\ node' = r.node
        /\ last' = Call("full_move", 0, mv, 0, node, r.err, << >>, NoFound)
        /\ steps' = steps + 1

\* the host's node.children()
Children ==
    /\ node' = node
    /\ last' = Call("children", 0, << >>, 0, node, Ok, children(node), NoFound)
    /\ steps' = steps + 1

\* the host's minimax(&node, depth, &mut alpha, &mut beta) with alpha = Score::MIN
\* and beta = Score::MAX
Minimax(depth) ==
    /\ node' = node
    /\ last' = Call("minimax", 0, << >>, depth, node, Ok, << >>,
                    minimax(node, depth, ScoreMIN, ScoreMAX))
    /\ steps' = steps + 1

Sow == steps < MaxSteps /\ \E pocket \in PocketInputs : SubMove(pocket)
Move == steps < MaxSteps /\ \E mv \in MoveInputs(node) : FullMove(mv)
Generate == steps < MaxSteps /\ Children

Next == Sow \/ Move \/ Generate

Spec == Init /\ [][Next]_vars

Play == steps < MaxPlies /\ \E mv \in LegalMoves(node) : FullMove(mv)
Search == steps < MaxPlies /\ \E depth \in 0 .. MaxDepth : Minimax(depth)

NextSearch == Play \/ Search

SpecSearch == Init /\ [][NextSearch]_vars


\* ------------------------------------------------------------ vocabulary of the claims
\* the mover's six playing pockets and store, as the rules name them
OwnPlaying(turn) == IF turn = White THEN 0 .. 5 ELSE 7 .. 12
OwnStore(turn) == IF turn = White THEN 6 ELSE 13

Total(board) ==
    board[0] + board[1] + board[2] + board[3] + board[4] + board[5] + board[6]
    + board[7] + board[8] + board[9] + board[10] + board[11] + board[12] + board[13]

\* The 13 slots a mover sows into (all but the opponent's store), numbered 0..12
\* in sowing order.
RingCoord(turn, slot) ==
    IF turn = White THEN slot ELSE (IF slot > 6 THEN slot - 7 ELSE slot + 7)

\* how many stones into a sow from `pocket` the slot is first reached: 1..13
Dist(turn, pocket, slot) ==
    ((RingCoord(turn, slot) - RingCoord(turn, pocket) - 1) % 13) + 1

\* how many of the n stones of a sow fall in a slot at distance d
Drops(n, d) == IF n < d THEN 0 ELSE ((n - d) \div 13) + 1

\* the slot that receives the last of the n stones sown from `pocket`
Landing(turn, pocket, n) ==
    CHOOSE slot \in Pockets \ { OwnStore(toggled(turn)) } :
        Dist(turn, pocket, slot) = ((n - 1) % 13) + 1

SowDone == last.op = "sub_move" /\ last.err = Ok
SownCount == last.pre.board[last.pocket]
LandingSlot == Landing(last.pre.turn, last.pocket, SownCount)
StoreGain == node.board[OwnStore(last.pre.turn)] - last.pre.board[OwnStore(last.pre.turn)]

Terminal(n) == Len(children(n)) = 0

\* unpruned minimax of the same depth over the same children, terminal scoring
\* and depth-0 heuristic
RECURSIVE FullMinimax(_, _)
FullMinimax(n, depth) ==
    LET kids == children(n)
    IN  IF Len(kids) = 0 THEN final_score(n)
        ELSE IF depth = 0 THEN n.board[6] - n.board[13]
        ELSE LET vals == { FullMinimax(kids[k].node, depth - 1) : k \in 1 .. Len(kids) }
             IN  IF n.turn = White
                 THEN CHOOSE v \in vals : \A w \in vals : v >= w
                 ELSE CHOOSE v \in vals : \A w \in vals : v <= w

\* ------------------------------------------------------------ claims

\* C1: stone conservation. Every position reached by sows from the default start
\* position holds 48 stones in its 14 slots, captures and full laps included, and
\* every position children() returns has the same total as its parent.
C1_StoneConservation ==
    /\ Total(node.board) = 48
    /\ last.op = "children" =>
          \A k \in 1 .. Len(last.kids) :
              Total(last.kids[k].node.board) = Total(last.pre.board)

\* C1 witness: a sow of 13 or more stones went right round the board and captured.
C1_Witness ==
    /\ SowDone
    /\ SownCount >= 13
    /\ LandingSlot = last.pocket
    /\ node.board[last.pocket] = 0
    /\ StoreGain >= 3

\* C2 (as claimed): children() returns an empty list exactly when the player to
\* move has zero stones in all six of their own playing pockets.
C2_EmptyIffNoStones ==
    last.op = "children" =>
        (Len(last.kids) = 0
            <=> \A p \in OwnPlaying(last.pre.turn) : last.pre.board[p] = 0)

\* C3: round trip of generated moves. For every pair (mv, child) of children(p),
\* full_move(mv) on a copy of p succeeds and yields child's board and player.
C3_RoundTrip ==
    last.op = "children" =>
        \A k \in 1 .. Len(last.kids) :
            LET r == full_move(last.pre, last.kids[k].mv)
            IN  r.err = Ok /\ r.node = last.kids[k].node

\* C3 witness: children() returned a chained move of three or more sows.
C3_Witness ==
    /\ last.op = "children"
    /\ \E k \in 1 .. Len(last.kids) : Len(last.kids[k].mv) >= 3

\* C4 (as claimed): alpha-beta equivalence. The score minimax returns from
\* alpha = Score::MIN, beta = Score::MAX equals the unpruned minimax score of the
\* same depth.
C4_AlphaBetaEquivalence ==
    last.op = "minimax" => last.found.score = FullMinimax(last.pre, last.depth)

\* C5: error outcomes of one sow. sub_move fails with IndexError exactly when the
\* pocket is not one of the mover's six playing pockets, otherwise with EmptyError
\* exactly when the pocket holds no stone, and an error leaves board and player
\* as they were.
C5_ErrorOutcomes ==
    last.op = "sub_move" =>
        /\ last.err = IndexError <=> last.pocket \notin OwnPlaying(last.pre.turn)
        /\ last.err = EmptyError <=>
              (last.pocket \in OwnPlaying(last.pre.turn) /\ last.pre.board[last.pocket] = 0)
        /\ last.err # Ok => node = last.pre

\* C5 witness: a sow from one of the mover's own playing pockets was refused with
\* EmptyError because the pocket held no stone, and nothing moved.
C5_Witness ==
    /\ last.op = "sub_move"
    /\ last.err = EmptyError
    /\ last.pocket \in OwnPlaying(last.pre.turn)
    /\ node = last.pre

\* C6 (as claimed): full_move is atomic. When a sow of the sequence fails, the
\* position is left exactly as it was before the call.
C6_FullMoveAtomic ==
    (last.op = "full_move" /\ last.err # Ok) => node = last.pre

\* the case of C7: the last stone of a sow fell in a playing pocket of the mover
\* that was empty before the sow
LandsOnOwnEmpty ==
    /\ SowDone
    /\ LandingSlot \in OwnPlaying(last.pre.turn)
    /\ last.pre.board[LandingSlot] = 0

\* C7 (as claimed): capture. After such a sow the mover's store is larger by
\* exactly 1 + the stone count of the opposite pocket (taken before the sow, or as
\* it stands when the last stone lands), and both pockets hold 0, also for sows
\* that pass the mover's store.
C7_CaptureAsClaimed ==
    LandsOnOwnEmpty =>
        LET opp == 12 - LandingSlot
            before == last.pre.board[opp]
            atLanding == before + Drops(SownCount, Dist(last.pre.turn, last.pocket, opp))
        IN  /\ StoreGain = 1 + before \/ StoreGain = 1 + atLanding
            /\ node.board[LandingSlot] = 0
            /\ node.board[opp] = 0

\* C7 (amended): when the sow puts exactly one stone, its last, in P, the store
\* grows by 1 + the opposite pocket's count before the sow + the stones this same
\* sow dropped in the opposite pocket and in the mover's store on its way, and
\* both P and the opposite pocket hold 0.
C7_CaptureAmended ==
    (LandsOnOwnEmpty
        /\ Drops(SownCount, Dist(last.pre.turn, last.pocket, LandingSlot)) = 1) =>
        LET opp == 12 - LandingSlot
            toOpp == Drops(SownCount, Dist(last.pre.turn, last.pocket, opp))
            toStore == Drops(SownCount,
                             Dist(last.pre.turn, last.pocket, OwnStore(last.pre.turn)))
        IN  /\ StoreGain = 1 + last.pre.board[opp] + toOpp + toStore
            /\ node.board[LandingSlot] = 0
            /\ node.board[opp] = 0

\* C7 witness: a capture by a sow that passed the mover's store and dropped a
\* stone in the opposite pocket on its way.
C7_Witness ==
    /\ LandsOnOwnEmpty
    /\ Drops(SownCount, Dist(last.pre.turn, last.pocket, OwnStore(last.pre.turn))) = 1
    /\ Drops(SownCount, Dist(last.pre.turn, last.pocket, 12 - LandingSlot)) = 1
    /\ last.pre.board[12 - LandingSlot] > 0

\* C8 (as claimed): at depth 0 minimax returns the store differential
\* board[6] - board[13] for every position, terminal or not.
C8_DepthZeroAsClaimed ==
    (last.op = "minimax" /\ last.depth = 0) =>
        last.found.score = last.pre.board[6] - last.pre.board[13]

\* C8 (amended): at depth 0 minimax returns board[6] - board[13] for every
\* position on which children() is not empty.
C8_DepthZeroAmended ==
    (last.op = "minimax" /\ last.depth = 0 /\ ~Terminal(last.pre)) =>
        last.found.score = last.pre.board[6] - last.pre.board[13]

\* C8 witness: a depth-0 search of a non-terminal position with unequal stores.
C8_Witness ==
    /\ last.op = "minimax"
    /\ last.depth = 0
    /\ ~Terminal(last.pre)
    /\ last.pre.board[6] # last.pre.board[13]
    /\ last.pre.board[13] > 0

\* C9 (as claimed): for every depth, minimax returns None only on a terminal
\* position and Some(move) on every non-terminal one.
C9_NoneOnlyTerminalAsClaimed ==
    last.op = "minimax" => (~last.found.some <=> Terminal(last.pre))

\* C9 (amended): for every depth >= 1, minimax returns None exactly on terminal
\* positions; at depth 0 it returns None on every position.
C9_NoneOnlyTerminalAmended ==
    last.op = "minimax" =>
        /\ last.depth >= 1 => (~last.found.some <=> Terminal(last.pre))
        /\ last.depth = 0 => ~last.found.some

\* C9 witness: a search of depth 1 or more on a terminal position returned None
\* while stones were still on the board.
C9_Witness ==
    /\ last.op = "minimax"
    /\ last.depth >= 1
    /\ Terminal(last.pre)
    /\ ~last.found.some
    /\ \E p \in Pockets \ { 6, 13 } : last.pre.board[p] > 0

\* C10: the engine never proposes an illegal move. On a non-terminal position at
\* depth >= 1 the move minimax returns is non-empty, is one of the moves of
\* children(position), and full_move applies it without error.
C10_ProposedMoveLegal ==
    (last.op = "minimax" /\ last.depth >= 1 /\ ~Terminal(last.pre)) =>
        /\ last.found.some
        /\ Len(last.found.mv) > 0
        /\ last.found.mv \in LegalMoves(last.pre)
        /\ full_move(last.pre, last.found.mv).err = Ok

\* C10 witness: a depth-2 search whose shared alpha and beta met (a cutoff
\* happened) returned a chained move.
C10_Witness ==
    /\ last.op = "minimax"
    /\ last.depth >= 2
    /\ ~Terminal(last.pre)
    /\ Len(last.found.mv) >= 2
    /\ last.found.score # FullMinimax(last.pre, last.depth)

\* C11: the opening has ten moves. children() of Node::default() returns exactly
\* 10 compound moves (the count test_children asserts).
C11_DefaultTenMoves ==
    (last.op = "children" /\ last.pre = DefaultNode) => Len(last.kids) = 10

\* C11 witness: children() was called on the default position and returned both
\* single sows and chained moves (pocket 2 reaches the store and sows again).
C11_Witness ==
    /\ last.op = "children"
    /\ last.pre = DefaultNode
    /\ \E k \in 1 .. Len(last.kids) : Len(last.kids[k].mv) = 1
    /\ \E k \in 1 .. Len(last.kids) : Len(last.kids[k].mv) = 2 /\ last.kids[k].mv[1] = 2

\* C12: the initial state. The position the host holds before any sow
\* (Node::default()) has 4 stones in each of the 12 playing pockets 0..5 and
\* 7..12, no stone in the stores 6 and 13, and White to move.
C12_DefaultPosition ==
    (last.op = "default" /\ node = full_move(DefaultNode, << >>).node) =>
        /\ DOMAIN node.board = 0 .. 13
        /\ \A i \in (0 .. 5) \cup (7 .. 12) : node.board[i] = 4
        /\ node.board[6] = 0
        /\ node.board[13] = 0
        /\ node.turn = White

\* C12 witness: the host holds the opening position, no call made on it yet, and
\* White can sow from each of its six pockets.
C12_Witness ==
    /\ last.op = "default"
    /\ steps = 0
    /\ node = full_move(DefaultNode, << >>).node
    /\ \A p \in 0 .. 5 : sub_move(node, p).err = Ok

\* C13: turn passing. After a successful sow the player to move is unchanged
\* exactly when the last stone fell in the mover's own store; in every other
\* case, capture or not, the turn went to the other player.
C13_TurnPassing ==
    SowDone =>
        /\ (node.turn = last.pre.turn) <=> (LandingSlot = OwnStore(last.pre.turn))
        /\ (LandingSlot # OwnStore(last.pre.turn)) =>
               /\ node.turn # last.pre.turn
               /\ node.turn \in { White, Black }

\* C13 witness: Black sowed its last stone into its own store and kept the turn.
C13_Witness ==
    /\ SowDone
    /\ last.pre.turn = Black
    /\ LandingSlot = 13
    /\ node.turn = Black

\* a sow captured: the slot that received the last stone is empty afterwards
\* (a sow leaves at least one stone where it ends unless a capture removes it)
SowCaptured == SowDone /\ node.board[LandingSlot] = 0

\* C14 (as claimed): capture condition. A successful sow performs a capture
\* exactly when its last stone lands in one of the mover's own playing pockets
\* and that pocket was empty before the sow.
C14_CaptureConditionAsClaimed ==
    SowDone =>
        (SowCaptured <=>
            (LandingSlot \in OwnPlaying(last.pre.turn) /\ last.pre.board[LandingSlot] = 0))

\* C14 (amended): a successful sow performs a capture exactly when its last
\* stone lands in one of the mover's own playing pockets and that pocket holds
\* exactly 1 stone after the sow: what it held before the sow (nothing, if it is
\* the pocket the sow was taken from) plus what this sow dropped in it is 1.
C14_CaptureConditionAmended ==
    SowDone =>
        LET heldBefore == IF LandingSlot = last.pocket THEN 0
                          ELSE last.pre.board[LandingSlot]
            dropped == Drops(SownCount, Dist(last.pre.turn, last.pocket, LandingSlot))
        IN  SowCaptured <=>
                (LandingSlot \in OwnPlaying(last.pre.turn) /\ heldBefore + dropped = 1)

\* C14 witness: a sow of the 13 stones of a pocket put its last stone back in
\* that pocket, which was not empty before the sow, and captured.
C14_Witness ==
    /\ SowCaptured
    /\ LandingSlot = last.pocket
    /\ last.pre.board[LandingSlot] = 13
    /\ node.turn # last.pre.turn

\* C15: a sow never changes the opponent's store, whatever the count and
\* whether or not it captures; so neither store's count decreases by a sow or a
\* sequence of sows.
C15_OpponentStoreUntouched ==
    /\ SowDone =>
           node.board[OwnStore(toggled(last.pre.turn))]
               = last.pre.board[OwnStore(toggled(last.pre.turn))]
    /\ last.op \in { "sub_move", "full_move" } =>
           /\ node.board[6] >= last.pre.board[6]
           /\ node.board[13] >= last.pre.board[13]

\* C15 witness: a sow long enough to go past the opponent's store (it reached
\* the mover's first pocket again) that also captured.
C15_Witness ==
    /\ SowCaptured
    /\ last.pocket # (IF last.pre.turn = White THEN 0 ELSE 7)
    /\ SownCount >= Dist(last.pre.turn, last.pocket, IF last.pre.turn = White THEN 0 ELSE 7)

\* a is a proper prefix of b
ProperPrefix(a, b) == Len(a) < Len(b) /\ \A j \in 1 .. Len(a) : a[j] = b[j]

\* a comes strictly before b in lexicographic order of pocket sequences
LexLess(a, b) ==
    \/ ProperPrefix(a, b)
    \/ \E i \in 1 .. Min(Len(a), Len(b)) :
           a[i] < b[i] /\ \A j \in 1 .. (i - 1) : a[j] = b[j]

\* C16: ordering. The moves children() returns are in strictly increasing
\* lexicographic order of their pocket sequences; no move occurs twice and no
\* move is a proper prefix of another.
C16_MovesInLexOrder ==
    last.op = "children" =>
        /\ \A k \in 1 .. (Len(last.kids) - 1) :
               LexLess(last.kids[k].mv, last.kids[k + 1].mv)
        /\ \A i, j \in 1 .. Len(last.kids) :
               i # j => /\ last.kids[i].mv # last.kids[j].mv
                        /\ ~ProperPrefix(last.kids[i].mv, last.kids[j].mv)

\* C16 witness: children() returned two neighbouring chained moves of three sows
\* or more that start with the same pocket.
C16_Witness ==
    /\ last.op = "children"
    /\ \E k \in 1 .. (Len(last.kids) - 1) :
           /\ Len(last.kids[k].mv) >= 3
           /\ Len(last.kids[k + 1].mv) >= 3
           /\ last.kids[k].mv[1] = last.kids[k + 1].mv[1]

\* stones in the 12 playing pockets
NonStore(board) == Total(board) - board[6] - board[13]

\* C17: bounded chains. A successful sow that leaves the player to move
\* unchanged strictly reduces the stones in the 12 playing pockets, and every
\* move children(p) returns is at most as long as the number of stones in p's
\* playing pockets.
C17_ChainsBounded ==
    /\ (SowDone /\ node.turn = last.pre.turn) =>
           NonStore(node.board) < NonStore(last.pre.board)
    /\ last.op = "children" =>
           \A k \in 1 .. Len(last.kids) :
               Len(last.kids[k].mv) <= NonStore(last.pre.board)

\* C17 witness: children() returned a chain of four sows or more.
C17_Witness ==
    /\ last.op = "children"
    /\ \E k \in 1 .. Len(last.kids) : Len(last.kids[k].mv) >= 4

\* C18 (as claimed): own-store extra turn. For every pocket of the mover whose
\* sow places its last stone in the mover's own store, children() contains a
\* move starting with that pocket, and every move starting with that pocket is
\* longer than one sow.
C18_StoreSowChains ==
    last.op = "children" =>
        \A p \in OwnPlaying(last.pre.turn) :
            (/\ last.pre.board[p] > 0
             /\ Landing(last.pre.turn, p, last.pre.board[p]) = OwnStore(last.pre.turn)) =>
                /\ \E k \in 1 .. Len(last.kids) : last.kids[k].mv[1] = p
                /\ \A k \in 1 .. Len(last.kids) :
                       last.kids[k].mv[1] = p => Len(last.kids[k].mv) > 1

\* C19: deterministic tie-break. On a non-terminal position at depth >= 1 the
\* score minimax returns is the best of the scores of the children it examined
\* (largest for White, smallest for Black), and the move it returns is the
\* earliest move in children() order among the examined children whose
\* searched score equals the returned score.
C19_EarliestBestMove ==
    (last.op = "minimax" /\ last.depth >= 1 /\ ~Terminal(last.pre)) =>
        LET kids == children(last.pre)
            scores == Examined(last.pre, last.depth)
            ties == { k \in 1 .. Len(scores) : scores[k] = last.found.score }
        IN  /\ Len(scores) <= Len(kids)
            /\ ties # { }
            /\ \A k \in 1 .. Len(scores) :
                   IF last.pre.turn = White
                   THEN scores[k] <= last.found.score
                   ELSE scores[k] >= last.found.score
            /\ \E k \in ties :
                   /\ \A j \in ties : k <= j
                   /\ last.found.mv = kids[k].mv

\* C19 witness: a search of depth 2 or more in which two examined children or
\* more had the returned score, and the move of the first of them was returned.
C19_Witness ==
    /\ last.op = "minimax"
    /\ last.depth >= 2
    /\ ~Terminal(last.pre)
    /\ LET kids == children(last.pre)
           scores == Examined(last.pre, last.depth)
       IN  \E j, k \in 1 .. Len(scores) :
               /\ j < k
               /\ scores[j] = last.found.score
               /\ scores[k] = last.found.score
               /\ \A i \in 1 .. (j - 1) : scores[i] # last.found.score
               /\ last.found.mv = kids[j].mv

\* the player to move has no stone in the own six pockets
NoStones(n) == \A p \in OwnPlaying(n.turn) : n.board[p] = 0

\* sows still needed to carry a stone of a playing pocket to the store ahead of it
StepsToStore(slot) == IF slot < 6 THEN 6 - slot ELSE 13 - slot

\* a measure of what is left to play: the stones in the playing pockets first,
\* then how far they are from the store ahead of them
RankBase == 6 * 12 * STONES + 1
RECURSIVE Remoteness(_, _)
Remoteness(board, slot) ==
    IF slot > 12 THEN 0
    ELSE (IF slot = 6 THEN 0 ELSE board[slot] * StepsToStore(slot))
         + Remoteness(board, slot + 1)
Rank(board) == NonStore(board) * RankBase + Remoteness(board, 0)

\* every successful sow strictly lowers the measure, which is never negative:
\* no sequence of successful sows is infinite
SowsDescend ==
    /\ Rank(node.board) >= 0
    /\ SowDone => Rank(node.board) < Rank(last.pre.board)

\* a position without stones for the player to move is reported as game over
NoStonesIsGameOver ==
    (last.op = "children" /\ NoStones(last.pre)) => Len(last.kids) = 0

\* C20 (as claimed): every game ends. No sequence of successful sows is
\* infinite, and a play ends, with the host's children().is_empty() test
\* reporting game over, at a position in which the player to move has no stones
\* in the own playing pockets, and not before.
C20_EveryGameEnds ==
    /\ SowsDescend
    /\ NoStonesIsGameOver
    /\ (last.op = "children" /\ Len(last.kids) = 0) =>
           /\ NoStones(last.pre)
           /\ \A pocket \in Pockets : sub_move(last.pre, pocket).err # Ok


=============================================================================
